---- MODULE Spec2Model ----
(***************************************************************************)
(* Model of the least-connections load balancer of src/main.go.            *)
(*                                                                         *)
(* State: the pool (Servers, in pool order) with each record's Healthy,    *)
(* ActiveConnections, TotalRequests and Mutex, the pool Mutex, one handler *)
(* goroutine per inbound request (LoadBalancer.ServeHTTP), and the probe   *)
(* goroutines started by LoadBalancer.HealthCheck.                         *)
(*                                                                         *)
(* Every blocking point of the code is a separate step: Mutex.Lock (the    *)
(* step is enabled only when the mutex is free), the proxied round trip,   *)
(* the 5 second sleep of ModifyResponse and the probe's client.Get.  The   *)
(* straight-line code between two blocking points is one step, except the  *)
(* two increments of lines 155-156, which are one step each.               *)
(***************************************************************************)
EXTENDS Integers, Sequences, FiniteSets, TLC

\* ------------------------------------------------------------- bounds
NumServers == 2
MaxRequests == 2
MaxProbes == 2

Reqs == 1..MaxRequests

\* ---------------------------------------------------------- constants
Nil == 0
StatusOK == 200
StatusNoContent == 204
StatusInternalServerError == 500
StatusBadGateway == 502
StatusServiceUnavailable == 503

\* Whether url.Parse / client.Get accept a configured server URL.
URLKinds == {"valid", "invalid"}

\* The request paths ServeHTTP tells apart.
Paths == {"/api/server-stats", "/dashboard", "/other"}

\* What the backend does with a proxied request, as proxy.ServeHTTP (line
\* 189) sees it:
\*   "response"   a final response: ModifyResponse is called;
\*   "error"      a transport failure (refused, reset, dial timeout, client
\*                gone): ErrorHandler is called;
\*   "switching"  a 101 Switching Protocols response to a request that asked
\*                for no upgrade: httputil.ReverseProxy calls ModifyResponse
\*                on it like on any response and then, when its upgrade
\*                handling finds that the connection cannot be switched,
\*                ErrorHandler;
\*   "silent"     the connection is accepted and no response ever sent:
\*                neither callback is called.
Backends == {"response", "switching", "error", "silent"}

\* Outcome of client.Get(s.URL + "/health"): (err # nil, resp.StatusCode);
\* a transport error or the 5 second timeout gives err # nil and resp = nil.
\* The statuses are 200, another 2xx, and an error status.
ProbeResults == {[err |-> TRUE, code |-> 0],
                 [err |-> FALSE, code |-> StatusOK],
                 [err |-> FALSE, code |-> StatusNoContent],
                 [err |-> FALSE, code |-> StatusInternalServerError]}
NoResult == [err |-> FALSE, code |-> 0]

VARIABLES
  Servers,              \* lb.Servers: the indices of the pool, in pool order
  URL,                  \* Server.URL, by its kind
  Healthy,              \* Server.Healthy
  ActiveConnections,    \* Server.ActiveConnections
  TotalRequests,        \* Server.TotalRequests
  Mutex,                \* Server.Mutex: its holder
  lbMutex,              \* LoadBalancer.Mutex: its holder, Nil when free
  pc,                   \* where each handler goroutine stands
  path,                 \* r.URL.Path of each request
  idx,                  \* position of the range loop over lb.Servers
  leastConnections,     \* local of GetLeastConnectedServer
  leastConnectedServer, \* local of GetLeastConnectedServer
  server,               \* local of ServeHTTP: the selected server, or Nil
  backend,              \* what the backend does with the proxied request
  status,               \* status code written to the client, 0 if none yet
  stats,                \* local of GetStats: the entries appended so far
  probeGet,             \* probe goroutines inside client.Get, per server
  reads,                \* history: (Healthy, ActiveConnections) as read by the scan
  downSince             \* history: servers unhealthy ever since the dispatch began

vars == <<Servers, URL, Healthy, ActiveConnections, TotalRequests, Mutex, lbMutex, pc,
          path, idx, leastConnections, leastConnectedServer, server, backend,
          status, stats, probeGet, reads, downSince>>

cfgVars == <<Servers, URL>>
srvVars == <<Healthy, ActiveConnections, TotalRequests>>
scanVars == <<idx, leastConnections, leastConnectedServer>>
reqVars == <<pc, path, server, backend, status, stats>>
histVars == <<reads, downSince>>

\* ------------------------------------------------------ mutex holders
Free == [kind |-> "free", req |-> 0, res |-> NoResult]
ByReq(r) == [kind |-> "req", req |-> r, res |-> NoResult]
ByProbe(res) == [kind |-> "probe", req |-> 0, res |-> res]

\* ---------------------------------------------------------------- Init
\* main(): one record per configured server (any number of them), each
\* healthy with zero counters.
Init ==
  /\ Servers \in {1..n : n \in 0..NumServers}
  /\ URL \in [Servers -> URLKinds]
  /\ Healthy = [s \in Servers |-> TRUE]
  /\ ActiveConnections = [s \in Servers |-> 0]
  /\ TotalRequests = [s \in Servers |-> 0]
  /\ Mutex = [s \in Servers |-> Free]
  /\ lbMutex = Nil
  /\ pc = [r \in Reqs |-> "idle"]
  /\ path = [r \in Reqs |-> "none"]
  /\ idx = [r \in Reqs |-> 0]
  /\ leastConnections = [r \in Reqs |-> -1]
  /\ leastConnectedServer = [r \in Reqs |-> Nil]
  /\ server = [r \in Reqs |-> Nil]
  /\ backend = [r \in Reqs |-> "none"]
  /\ status = [r \in Reqs |-> 0]
  /\ stats = [r \in Reqs |-> <<>>]
  /\ probeGet = [s \in Servers |-> 0]
  /\ reads = [r \in Reqs |-> <<>>]
  /\ downSince = [r \in Reqs |-> {}]

\* ------------------------------------------------- ServeHTTP: routing
\* An inbound request reaches ServeHTTP.  /api/server-stats calls GetStats,
\* "/" and "/dashboard" serve the static file, any other path is proxied
\* and starts with GetLeastConnectedServer (both block on lb.Mutex.Lock).
\* Request ids are handed out in arrival order.
Arrive(r, p) ==
  /\ pc[r] = "idle"
  /\ \A q \in Reqs : q < r => pc[q] # "idle"
  /\ path' = [path EXCEPT ![r] = p]
  /\ IF p = "/dashboard"
       THEN /\ pc' = [pc EXCEPT ![r] = "done"]
            /\ status' = [status EXCEPT ![r] = StatusOK]
            /\ UNCHANGED downSince
       ELSE /\ pc' = [pc EXCEPT ![r] = IF p = "/api/server-stats"
                                         THEN "stats_lock" ELSE "glcs_lock"]
            /\ downSince' = [downSince EXCEPT ![r] =
                               IF p = "/other"
                                 THEN {s \in Servers : ~Healthy[s]} ELSE {}]
            /\ UNCHANGED status
  /\ UNCHANGED <<cfgVars, srvVars, Mutex, lbMutex, scanVars, server, backend,
                 stats, probeGet, reads>>

\* ------------------------------------------ GetLeastConnectedServer
\* lb.Mutex.Lock() and the locals' initial values (lines 53-57).
GLCS_Lock(r) ==
  /\ pc[r] = "glcs_lock"
  /\ lbMutex = Nil
  /\ lbMutex' = r
  /\ idx' = [idx EXCEPT ![r] = 1]
  /\ leastConnections' = [leastConnections EXCEPT ![r] = -1]
  /\ leastConnectedServer' = [leastConnectedServer EXCEPT ![r] = Nil]
  /\ reads' = [reads EXCEPT ![r] = <<>>]
  /\ pc' = [pc EXCEPT ![r] = "glcs_loop"]
  /\ UNCHANGED <<cfgVars, srvVars, Mutex, path, server, backend, status, stats,
                 probeGet, downSince>>

\* server.Mutex.Lock() of the record the loop stands at (line 60).
GLCS_ServerLock(r) ==
  /\ pc[r] = "glcs_loop"
  /\ idx[r] \in Servers
  /\ Mutex[idx[r]] = Free
  /\ Mutex' = [Mutex EXCEPT ![idx[r]] = ByReq(r)]
  /\ pc' = [pc EXCEPT ![r] = "glcs_read"]
  /\ UNCHANGED <<cfgVars, srvVars, lbMutex, path, scanVars, server, backend,
                 status, stats, probeGet, histVars>>

\* Mutants of the loop body's decision: the health check left out; the
\* health check applied only once a candidate exists; <= for <.
ScanStep_NoHealthCheck(least, cand, s, healthy, conns) ==
  IF least = -1 \/ conns < least THEN <<conns, s>> ELSE <<least, cand>>

ScanStep_HealthCheckLate(least, cand, s, healthy, conns) ==
  IF ~healthy /\ cand # Nil THEN <<least, cand>>
  ELSE IF least = -1 \/ conns < least THEN <<conns, s>>
  ELSE <<least, cand>>

ScanStep_LessOrEqual(least, cand, s, healthy, conns) ==
  IF ~healthy THEN <<least, cand>>
  ELSE IF least = -1 \/ conns <= least THEN <<conns, s>>
  ELSE <<least, cand>>

\* The loop body's decision (lines 61-69): the new
\* <<leastConnections, leastConnectedServer>> after reading record s.
ScanStep(least, cand, s, healthy, conns) ==
  IF ~healthy THEN <<least, cand>>
  ELSE IF least = -1 \/ conns < least THEN <<conns, s>>
  ELSE <<least, cand>>

\* Mutant of the loop body: the unlock before `continue` is missing, so a
\* record read as unhealthy stays locked.
GLCS_Read_KeepsLock(r) ==
  /\ pc[r] = "glcs_read"
  /\ LET s == idx[r]
         nxt == ScanStep(leastConnections[r], leastConnectedServer[r], s,
                         Healthy[s], ActiveConnections[s])
     IN /\ Mutex[s] = ByReq(r)
        /\ leastConnections' = [leastConnections EXCEPT ![r] = nxt[1]]
        /\ leastConnectedServer' = [leastConnectedServer EXCEPT ![r] = nxt[2]]
        /\ reads' = [reads EXCEPT ![r] =
                       Append(@, <<Healthy[s], ActiveConnections[s]>>)]
        /\ Mutex' = [Mutex EXCEPT ![s] = IF Healthy[s] THEN Free ELSE @]
        /\ idx' = [idx EXCEPT ![r] = s + 1]
  /\ pc' = [pc EXCEPT ![r] = "glcs_loop"]
  /\ UNCHANGED <<cfgVars, srvVars, lbMutex, path, server, backend, status, stats,
                 probeGet, downSince>>

\* The loop body under the record's lock, and server.Mutex.Unlock()
\* (lines 61-70).
GLCS_Read(r) ==
  /\ pc[r] = "glcs_read"
  /\ LET s == idx[r]
         nxt == ScanStep(leastConnections[r], leastConnectedServer[r], s,
                         Healthy[s], ActiveConnections[s])
     IN /\ Mutex[s] = ByReq(r)
        /\ leastConnections' = [leastConnections EXCEPT ![r] = nxt[1]]
        /\ leastConnectedServer' = [leastConnectedServer EXCEPT ![r] = nxt[2]]
        /\ reads' = [reads EXCEPT ![r] =
                       Append(@, <<Healthy[s], ActiveConnections[s]>>)]
        /\ Mutex' = [Mutex EXCEPT ![s] = Free]
        /\ idx' = [idx EXCEPT ![r] = s + 1]
  /\ pc' = [pc EXCEPT ![r] = "glcs_loop"]
  /\ UNCHANGED <<cfgVars, srvVars, lbMutex, path, server, backend, status, stats,
                 probeGet, downSince>>

\* End of the loop: return leastConnectedServer, the deferred
\* lb.Mutex.Unlock() (lines 54, 73), and the assignment of line 140.  The
\* locals of the call go out of scope.
GLCS_Return(r) ==
  /\ pc[r] = "glcs_loop"
  /\ idx[r] \notin Servers
  /\ lbMutex = r
  /\ lbMutex' = Nil
  /\ server' = [server EXCEPT ![r] = leastConnectedServer[r]]
  /\ idx' = [idx EXCEPT ![r] = 0]
  /\ leastConnections' = [leastConnections EXCEPT ![r] = -1]
  /\ leastConnectedServer' = [leastConnectedServer EXCEPT ![r] = Nil]
  /\ pc' = [pc EXCEPT ![r] = "selected"]
  /\ UNCHANGED <<cfgVars, srvVars, Mutex, path, backend, status, stats,
                 probeGet, histVars>>

\* ------------------------------------------------ ServeHTTP: dispatch
\* server == nil: 503 and return (lines 141-144).
NoServer(r) ==
  /\ pc[r] = "selected"
  /\ server[r] = Nil
  /\ status' = [status EXCEPT ![r] = StatusServiceUnavailable]
  /\ pc' = [pc EXCEPT ![r] = "done"]
  /\ reads' = [reads EXCEPT ![r] = <<>>]
  /\ downSince' = [downSince EXCEPT ![r] = {}]
  /\ UNCHANGED <<cfgVars, srvVars, Mutex, lbMutex, path, scanVars, server,
                 backend, stats, probeGet>>

\* url.Parse(server.URL) fails: 500 and return (lines 147-151).
ParseError(r) ==
  /\ pc[r] = "selected"
  /\ server[r] # Nil
  /\ URL[server[r]] = "invalid"
  /\ status' = [status EXCEPT ![r] = StatusInternalServerError]
  /\ pc' = [pc EXCEPT ![r] = "done"]
  /\ reads' = [reads EXCEPT ![r] = <<>>]
  /\ downSince' = [downSince EXCEPT ![r] = {}]
  /\ UNCHANGED <<cfgVars, srvVars, Mutex, lbMutex, path, scanVars, server,
                 backend, stats, probeGet>>

\* server.Mutex.Lock() before the increment (line 154).
IncLock(r) ==
  /\ pc[r] = "selected"
  /\ server[r] # Nil
  /\ URL[server[r]] = "valid"
  /\ Mutex[server[r]] = Free
  /\ Mutex' = [Mutex EXCEPT ![server[r]] = ByReq(r)]
  /\ pc' = [pc EXCEPT ![r] = "inc"]
  /\ reads' = [reads EXCEPT ![r] = <<>>]
  /\ downSince' = [downSince EXCEPT ![r] = {}]
  /\ UNCHANGED <<cfgVars, srvVars, lbMutex, path, scanVars, server, backend,
                 status, stats, probeGet>>

\* Mutant of the first increment: the record's lock is given up between
\* the two increments.
IncActive_Unlocks(r) ==
  /\ pc[r] = "inc"
  /\ Mutex[server[r]] = ByReq(r)
  /\ ActiveConnections' = [ActiveConnections EXCEPT ![server[r]] = @ + 1]
  /\ Mutex' = [Mutex EXCEPT ![server[r]] = Free]
  /\ pc' = [pc EXCEPT ![r] = "inc_total"]
  /\ UNCHANGED <<cfgVars, Healthy, TotalRequests, lbMutex, path, scanVars,
                 server, backend, status, stats, probeGet, histVars>>

\* server.ActiveConnections++ under the record's lock (line 155).
IncActive(r) ==
  /\ pc[r] = "inc"
  /\ Mutex[server[r]] = ByReq(r)
  /\ ActiveConnections' = [ActiveConnections EXCEPT ![server[r]] = @ + 1]
  /\ pc' = [pc EXCEPT ![r] = "inc_total"]
  /\ UNCHANGED <<cfgVars, Healthy, TotalRequests, Mutex, lbMutex, path,
                 scanVars, server, backend, status, stats, probeGet, histVars>>

\* Mutant of the second increment: the unlock of line 157 is missing, so
\* the record stays locked during the round trip.
IncTotal_KeepsLock(r, b) ==
  /\ pc[r] = "inc_total"
  /\ Mutex[server[r]] = ByReq(r)
  /\ TotalRequests' = [TotalRequests EXCEPT ![server[r]] = @ + 1]
  /\ backend' = [backend EXCEPT ![r] = b]
  /\ pc' = [pc EXCEPT ![r] = "proxy"]
  /\ UNCHANGED <<cfgVars, Healthy, ActiveConnections, Mutex, lbMutex, path,
                 scanVars, server, status, stats, probeGet, histVars>>

\* Mutant of the second increment: TotalRequests is left alone.
IncTotal_NoTotal(r, b) ==
  /\ pc[r] = "inc_total"
  /\ Mutex[server[r]] = ByReq(r)
  /\ Mutex' = [Mutex EXCEPT ![server[r]] = Free]
  /\ backend' = [backend EXCEPT ![r] = b]
  /\ pc' = [pc EXCEPT ![r] = "proxy"]
  /\ UNCHANGED <<cfgVars, srvVars, lbMutex, path, scanVars, server, status,
                 stats, probeGet, histVars>>

\* server.TotalRequests++, the unlock (lines 156-157), the construction of
\* the proxy and the call proxy.ServeHTTP(w, r) (lines 160-189), which sends
\* the request to the backend; b is what the backend will do with it.
IncTotal(r, b) ==
  /\ pc[r] = "inc_total"
  /\ Mutex[server[r]] = ByReq(r)
  /\ TotalRequests' = [TotalRequests EXCEPT ![server[r]] = @ + 1]
  /\ Mutex' = [Mutex EXCEPT ![server[r]] = Free]
  /\ backend' = [backend EXCEPT ![r] = b]
  /\ pc' = [pc EXCEPT ![r] = "proxy"]
  /\ UNCHANGED <<cfgVars, Healthy, ActiveConnections, lbMutex, path, scanVars,
                 server, status, stats, probeGet, histVars>>

\* The round trip inside proxy.ServeHTTP ends.  ReverseProxy calls
\* ErrorHandler when the transport returns an error, and ModifyResponse
\* when it returns a response (a 101 included).  No timeout is set on the
\* proxy or its transport (lines 160-189), so a backend that never answers
\* leaves the handler here.
RoundTrip(r) ==
  /\ pc[r] = "proxy"
  /\ backend[r] # "silent"
  /\ pc' = [pc EXCEPT ![r] = IF backend[r] = "error" THEN "eh_lock"
                              ELSE "mr_sleep"]
  /\ UNCHANGED <<cfgVars, srvVars, Mutex, lbMutex, path, scanVars, server,
                 backend, status, stats, probeGet, histVars>>

\* ModifyResponse: the sleep is over, server.Mutex.Lock() (lines 172-173).
MR_Lock(r) ==
  /\ pc[r] = "mr_sleep"
  /\ Mutex[server[r]] = Free
  /\ Mutex' = [Mutex EXCEPT ![server[r]] = ByReq(r)]
  /\ pc' = [pc EXCEPT ![r] = "mr_dec"]
  /\ UNCHANGED <<cfgVars, srvVars, lbMutex, path, scanVars, server, backend,
                 status, stats, probeGet, histVars>>

\* Mutant of ModifyResponse: a response from the backend marks the server
\* healthy.
MR_Dec_MarksHealthy(r) ==
  /\ pc[r] = "mr_dec"
  /\ Mutex[server[r]] = ByReq(r)
  /\ ActiveConnections' = [ActiveConnections EXCEPT ![server[r]] = @ - 1]
  /\ Healthy' = [Healthy EXCEPT ![server[r]] = TRUE]
  /\ Mutex' = [Mutex EXCEPT ![server[r]] = Free]
  /\ IF backend[r] = "switching"
       THEN /\ pc' = [pc EXCEPT ![r] = "eh_lock"]
            /\ UNCHANGED status
       ELSE /\ pc' = [pc EXCEPT ![r] = "done"]
            /\ status' = [status EXCEPT ![r] = StatusOK]
  /\ UNCHANGED <<cfgVars, TotalRequests, lbMutex, path, scanVars, server,
                 backend, stats, probeGet, histVars>>

\* ModifyResponse: the decrement, the unlock, return nil (lines 174-176).
\* ReverseProxy then copies a final response to the client; a 101 it hands
\* to its upgrade handling, which calls ErrorHandler when the connection
\* cannot be switched (the client asked for no upgrade).
MR_Dec(r) ==
  /\ pc[r] = "mr_dec"
  /\ Mutex[server[r]] = ByReq(r)
  /\ ActiveConnections' = [ActiveConnections EXCEPT ![server[r]] = @ - 1]
  /\ Mutex' = [Mutex EXCEPT ![server[r]] = Free]
  /\ IF backend[r] = "switching"
       THEN /\ pc' = [pc EXCEPT ![r] = "eh_lock"]
            /\ UNCHANGED status
       ELSE /\ pc' = [pc EXCEPT ![r] = "done"]
            /\ status' = [status EXCEPT ![r] = StatusOK]
  /\ UNCHANGED <<cfgVars, Healthy, TotalRequests, lbMutex, path, scanVars, server,
                 backend, stats, probeGet, histVars>>

\* ErrorHandler: server.Mutex.Lock() (line 181).
EH_Lock(r) ==
  /\ pc[r] = "eh_lock"
  /\ Mutex[server[r]] = Free
  /\ Mutex' = [Mutex EXCEPT ![server[r]] = ByReq(r)]
  /\ pc' = [pc EXCEPT ![r] = "eh_dec"]
  /\ UNCHANGED <<cfgVars, srvVars, lbMutex, path, scanVars, server, backend,
                 status, stats, probeGet, histVars>>

\* Mutant of ErrorHandler: the server is not marked unhealthy.
EH_Dec_StaysHealthy(r) ==
  /\ pc[r] = "eh_dec"
  /\ Mutex[server[r]] = ByReq(r)
  /\ ActiveConnections' = [ActiveConnections EXCEPT ![server[r]] = @ - 1]
  /\ Mutex' = [Mutex EXCEPT ![server[r]] = Free]
  /\ status' = [status EXCEPT ![r] = StatusBadGateway]
  /\ pc' = [pc EXCEPT ![r] = "done"]
  /\ UNCHANGED <<cfgVars, Healthy, TotalRequests, lbMutex, path, scanVars,
                 server, backend, stats, probeGet, histVars>>

\* Mutant of ErrorHandler: after the failure the request goes back to the
\* selection instead of being answered.
EH_Dec_Retries(r) ==
  /\ pc[r] = "eh_dec"
  /\ Mutex[server[r]] = ByReq(r)
  /\ ActiveConnections' = [ActiveConnections EXCEPT ![server[r]] = @ - 1]
  /\ Healthy' = [Healthy EXCEPT ![server[r]] = FALSE]
  /\ Mutex' = [Mutex EXCEPT ![server[r]] = Free]
  /\ server' = [server EXCEPT ![r] = Nil]
  /\ pc' = [pc EXCEPT ![r] = "glcs_lock"]
  /\ UNCHANGED <<cfgVars, TotalRequests, lbMutex, path, scanVars, backend,
                 status, stats, probeGet, histVars>>

\* ErrorHandler: the decrement, Healthy = false, the unlock, 502
\* (lines 182-186).
EH_Dec(r) ==
  /\ pc[r] = "eh_dec"
  /\ Mutex[server[r]] = ByReq(r)
  /\ ActiveConnections' = [ActiveConnections EXCEPT ![server[r]] = @ - 1]
  /\ Healthy' = [Healthy EXCEPT ![server[r]] = FALSE]
  /\ Mutex' = [Mutex EXCEPT ![server[r]] = Free]
  /\ status' = [status EXCEPT ![r] = StatusBadGateway]
  /\ pc' = [pc EXCEPT ![r] = "done"]
  /\ UNCHANGED <<cfgVars, TotalRequests, lbMutex, path, scanVars, server, backend,
                 stats, probeGet, histVars>>

\* ------------------------------------------------------------ GetStats
\* lb.Mutex.Lock() and the empty stats slice (lines 105-108).
Stats_Lock(r) ==
  /\ pc[r] = "stats_lock"
  /\ lbMutex = Nil
  /\ lbMutex' = r
  /\ idx' = [idx EXCEPT ![r] = 1]
  /\ stats' = [stats EXCEPT ![r] = <<>>]
  /\ pc' = [pc EXCEPT ![r] = "stats_loop"]
  /\ UNCHANGED <<cfgVars, srvVars, Mutex, path, leastConnections,
                 leastConnectedServer, server, backend, status, probeGet,
                 histVars>>

\* server.Mutex.Lock() of the record the loop stands at (line 110).
Stats_ServerLock(r) ==
  /\ pc[r] = "stats_loop"
  /\ idx[r] \in Servers
  /\ Mutex[idx[r]] = Free
  /\ Mutex' = [Mutex EXCEPT ![idx[r]] = ByReq(r)]
  /\ pc' = [pc EXCEPT ![r] = "stats_read"]
  /\ UNCHANGED <<cfgVars, srvVars, lbMutex, path, scanVars, server, backend,
                 status, stats, probeGet, histVars>>

\* Mutant of the entry: the counter is taken from the first record of the
\* pool instead of the record at hand.
serverStats_FirstRecord(s) ==
  [url |-> s, healthy |-> Healthy[s],
   activeConnections |-> ActiveConnections[1],
   totalRequests |-> TotalRequests[s]]

\* The entry of one record (lines 111-116).
serverStats(s) ==
  [url |-> s, healthy |-> Healthy[s],
   activeConnections |-> ActiveConnections[s],
   totalRequests |-> TotalRequests[s]]

\* Mutant of the read: a record that is not healthy gets no entry.
Stats_Read_SkipUnhealthy(r) ==
  /\ pc[r] = "stats_read"
  /\ Mutex[idx[r]] = ByReq(r)
  /\ stats' = [stats EXCEPT ![r] = IF Healthy[idx[r]]
                                   THEN Append(@, serverStats(idx[r]))
                                   ELSE @]
  /\ Mutex' = [Mutex EXCEPT ![idx[r]] = Free]
  /\ idx' = [idx EXCEPT ![r] = @ + 1]
  /\ pc' = [pc EXCEPT ![r] = "stats_loop"]
  /\ UNCHANGED <<cfgVars, srvVars, lbMutex, path, leastConnections,
                 leastConnectedServer, server, backend, status, probeGet,
                 histVars>>

\* The record is read, unlocked and appended (lines 111-118).
Stats_Read(r) ==
  /\ pc[r] = "stats_read"
  /\ Mutex[idx[r]] = ByReq(r)
  /\ stats' = [stats EXCEPT ![r] = Append(@, serverStats(idx[r]))]
  /\ Mutex' = [Mutex EXCEPT ![idx[r]] = Free]
  /\ idx' = [idx EXCEPT ![r] = @ + 1]
  /\ pc' = [pc EXCEPT ![r] = "stats_loop"]
  /\ UNCHANGED <<cfgVars, srvVars, lbMutex, path, leastConnections,
                 leastConnectedServer, server, backend, status, probeGet,
                 histVars>>

\* End of the loop: return stats, the deferred unlock (lines 106, 121), and
\* the JSON answer (lines 128-130).
Stats_Return(r) ==
  /\ pc[r] = "stats_loop"
  /\ idx[r] \notin Servers
  /\ lbMutex = r
  /\ lbMutex' = Nil
  /\ status' = [status EXCEPT ![r] = StatusOK]
  /\ idx' = [idx EXCEPT ![r] = 0]
  /\ pc' = [pc EXCEPT ![r] = "done"]
  /\ UNCHANGED <<cfgVars, srvVars, Mutex, path, leastConnections,
                 leastConnectedServer, server, backend, stats, probeGet,
                 histVars>>

\* --------------------------------------------------------- HealthCheck
\* Probe goroutines of server s that have not finished.
InFlight(s) == probeGet[s] + (IF Mutex[s].kind = "probe" THEN 1 ELSE 0)

\* A tick of the ticker: one goroutine per pool member (lines 80-99).
HealthTick ==
  /\ \A s \in Servers : InFlight(s) < MaxProbes
  /\ probeGet' = [s \in Servers |-> probeGet[s] + 1]
  /\ UNCHANGED <<cfgVars, srvVars, Mutex, lbMutex, reqVars, scanVars, histVars>>

\* Mutant of the probe: the probes of one tick run one after the other in
\* pool order, so a probe returns only when the servers before it have no
\* probe left.
ProbeGet_Sequential(s, res) ==
  /\ probeGet[s] > 0
  /\ \A o \in Servers : o < s => InFlight(o) = 0
  /\ URL[s] = "invalid" => res.err
  /\ Mutex[s] = Free
  /\ Mutex' = [Mutex EXCEPT ![s] = ByProbe(res)]
  /\ probeGet' = [probeGet EXCEPT ![s] = @ - 1]
  /\ UNCHANGED <<cfgVars, srvVars, lbMutex, reqVars, scanVars, histVars>>

\* client.Get(s.URL + "/health") returns res within its 5 second timeout,
\* and s.Mutex.Lock() (lines 83-88); a URL that does not parse always gives
\* an error.  The moment client.Get returns is the environment's, so the
\* step is taken when the mutex is free.
ProbeGet(s, res) ==
  /\ probeGet[s] > 0
  /\ URL[s] = "invalid" => res.err
  /\ Mutex[s] = Free
  /\ Mutex' = [Mutex EXCEPT ![s] = ByProbe(res)]
  /\ probeGet' = [probeGet EXCEPT ![s] = @ - 1]
  /\ UNCHANGED <<cfgVars, srvVars, lbMutex, reqVars, scanVars, histVars>>

\* Mutant of the assigned value: the status code is not looked at.
ProbeHealthy_AnyStatus(res) == ~res.err

\* The value assigned to s.Healthy (line 89); resp is nil exactly when
\* err is not.
ProbeHealthy(res) == ~res.err /\ res.code = StatusOK

\* Mutant of the assignment: a server that is marked unhealthy has its
\* ActiveConnections reset.
ProbeWrite_ResetsCounter(s) ==
  /\ Mutex[s].kind = "probe"
  /\ Healthy' = [Healthy EXCEPT ![s] = ProbeHealthy(Mutex[s].res)]
  /\ ActiveConnections' = [ActiveConnections EXCEPT ![s] =
                             IF ProbeHealthy(Mutex[s].res) THEN @ ELSE 0]
  /\ Mutex' = [Mutex EXCEPT ![s] = Free]
  /\ downSince' = [r \in Reqs |->
                     IF ProbeHealthy(Mutex[s].res) THEN downSince[r] \ {s}
                     ELSE downSince[r]]
  /\ UNCHANGED <<cfgVars, TotalRequests, lbMutex, reqVars, scanVars, probeGet,
                 reads>>

\* The assignment and the unlock (lines 89-93).
ProbeWrite(s) ==
  /\ Mutex[s].kind = "probe"
  /\ Healthy' = [Healthy EXCEPT ![s] = ProbeHealthy(Mutex[s].res)]
  /\ Mutex' = [Mutex EXCEPT ![s] = Free]
  /\ downSince' = [r \in Reqs |->
                     IF ProbeHealthy(Mutex[s].res) THEN downSince[r] \ {s}
                     ELSE downSince[r]]
  /\ UNCHANGED <<cfgVars, ActiveConnections, TotalRequests, lbMutex, reqVars,
                 scanVars, probeGet, reads>>

\* ------------------------------------------------------- specification
Next ==
  \/ \E r \in Reqs, p \in Paths : Arrive(r, p)
  \/ \E r \in Reqs : GLCS_Lock(r)
  \/ \E r \in Reqs : GLCS_ServerLock(r)
  \/ \E r \in Reqs : GLCS_Read(r)
  \/ \E r \in Reqs : GLCS_Return(r)
  \/ \E r \in Reqs : NoServer(r)
  \/ \E r \in Reqs : ParseError(r)
  \/ \E r \in Reqs : IncLock(r)
  \/ \E r \in Reqs : IncActive(r)
  \/ \E r \in Reqs, b \in Backends : IncTotal(r, b)
  \/ \E r \in Reqs : RoundTrip(r)
  \/ \E r \in Reqs : MR_Lock(r)
  \/ \E r \in Reqs : MR_Dec(r)
  \/ \E r \in Reqs : EH_Lock(r)
  \/ \E r \in Reqs : EH_Dec(r)
  \/ \E r \in Reqs : Stats_Lock(r)
  \/ \E r \in Reqs : Stats_ServerLock(r)
  \/ \E r \in Reqs : Stats_Read(r)
  \/ \E r \in Reqs : Stats_Return(r)
  \/ HealthTick
  \/ \E s \in Servers, res \in ProbeResults : ProbeGet(s, res)
  \/ \E s \in Servers : ProbeWrite(s)

Spec == Init /\ [][Next]_vars

\* The steps of handler r after its arrival, and of the probes of server s.
HandlerStep(r) ==
  \/ GLCS_Lock(r) \/ GLCS_ServerLock(r) \/ GLCS_Read(r) \/ GLCS_Return(r)
  \/ NoServer(r) \/ ParseError(r) \/ IncLock(r)
  \/ IncActive(r)
  \/ \E b \in Backends : IncTotal(r, b)
  \/ RoundTrip(r) \/ MR_Lock(r) \/ MR_Dec(r) \/ EH_Lock(r) \/ EH_Dec(r)
  \/ Stats_Lock(r) \/ Stats_ServerLock(r) \/ Stats_Read(r) \/ Stats_Return(r)

ProbeStep(s) ==
  /\ s \in Servers
  /\ (\E res \in ProbeResults : ProbeGet(s, res)) \/ ProbeWrite(s)

\* Scheduling: a goroutine that can run does run, a goroutine waiting for a
\* sync.Mutex that keeps being released gets it (the mutex hands over to
\* starving waiters), the ticker keeps ticking, client.Get returns within
\* its timeout, and a backend that answers or fails does so in finite time.
\* Arrivals are the clients' and are not forced.
Fairness ==
  /\ \A r \in Reqs : SF_vars(HandlerStep(r))
  /\ \A s \in 1..NumServers : SF_vars(ProbeStep(s))
  /\ WF_vars(HealthTick)

FairSpec == Spec /\ Fairness

\* ----------------------------------------------------- claims: helpers
\* Handlers whose counters were incremented and whose terminal outcome is
\* not yet there.
MidFlight == {"proxy", "mr_sleep", "mr_dec", "eh_lock", "eh_dec"}

\* The scan of handler r has returned and its reads are still at hand.
Returned(r) == pc[r] = "selected"

\* Positions of the scan of r at which the record was read as healthy.
ReadHealthy(r) == {i \in DOMAIN reads[r] : reads[r][i][1]}

\* C1: every request whose counters were incremented has ActiveConnections
\* of its server decremented exactly once, so once every request has reached
\* its terminal outcome each server's ActiveConnections is back at the value
\* it had before the requests (0).
C1_NetChangeZero ==
  (\A r \in Reqs : pc[r] \in {"idle", "done"})
    => \A s \in Servers : ActiveConnections[s] = 0

\* C2: ActiveConnections of every server is at least 0 in every reachable
\* state.
C2_NonNegative == \A s \in Servers : ActiveConnections[s] >= 0

\* C3: when the scan read at least one server as healthy, the server it
\* returns was read as healthy and the ActiveConnections read for it is at
\* most the value read for every other server read as healthy.
C3_ReturnsMinimumRead ==
  \A r \in Reqs :
    (Returned(r) /\ ReadHealthy(r) # {})
      => /\ server[r] \in ReadHealthy(r)
         /\ \A i \in ReadHealthy(r) : reads[r][server[r]][2] <= reads[r][i][2]

\* C4: when every server is read as unhealthy by the scan (the empty pool
\* included), GetLeastConnectedServer returns nil; ServeHTTP then answers
\* 503, and no step of that handler, from its arrival to the 503, changes
\* Healthy, ActiveConnections or TotalRequests of any server.
C4_NoHealthyServer ==
  /\ [](\A r \in Reqs :
          (Returned(r) /\ ReadHealthy(r) = {}) => server[r] = Nil)
  /\ [][\A r \in Reqs :
          /\ (pc[r] = "selected" /\ server[r] = Nil /\ pc'[r] # pc[r])
               => (pc'[r] = "done" /\ status'[r] = StatusServiceUnavailable)
          /\ (pc'[r] # pc[r] /\ path'[r] = "/other"
                /\ (pc'[r] \in {"glcs_lock", "glcs_loop", "glcs_read", "selected"}
                      \/ status'[r] = StatusServiceUnavailable))
               => srvVars' = srvVars]_vars

\* C4 witness: a non-empty pool with every server unhealthy has answered a
\* proxyable request with 503.
C4_Witness ==
  \E r \in Reqs :
    /\ pc[r] = "done" /\ status[r] = StatusServiceUnavailable
    /\ Servers # {} /\ \A s \in Servers : ~Healthy[s]

\* Dispatches that selected server s and are past the increment of line
\* 156, as the claim counts them: every dispatch whose selection returned s.
SelectedPast(s) ==
  {r \in Reqs : server[r] = s /\ pc[r] \in MidFlight \cup {"done"}}

\* C5 as stated: TotalRequests[s] counts every dispatch whose selection
\* returned s, and no other.
C5_CountsEverySelection ==
  \A s \in Servers : TotalRequests[s] = Cardinality(SelectedPast(s))

\* C5 amended: TotalRequests never decreases, and TotalRequests[s] counts
\* exactly the dispatches whose selection returned s and whose server URL
\* was parsed; a dispatch that selected no server, or a server whose URL
\* does not parse, raises no TotalRequests.
C5_TotalRequests ==
  /\ [][\A s \in Servers : TotalRequests'[s] >= TotalRequests[s]]_vars
  /\ [](\A s \in Servers :
          TotalRequests[s] =
            Cardinality({r \in SelectedPast(s) : URL[s] = "valid"}))

\* C5 witness: one dispatch was answered 500 for a URL that does not parse
\* and another dispatch has raised its server's TotalRequests to 1.
C5_Witness ==
  \E r, q \in Reqs :
    /\ pc[r] = "done" /\ status[r] = StatusInternalServerError
    /\ server[r] # Nil /\ TotalRequests[server[r]] = 0
    /\ server[q] # Nil /\ TotalRequests[server[q]] = 1

\* The two requests r and q are the only ones dispatched so far, to a pool
\* of 2, and both are between their increment and the end of the round trip.
BothMidFlight(r, q) ==
  /\ r # q
  /\ Cardinality(Servers) = 2
  /\ pc[r] = "proxy" /\ pc[q] = "proxy"
  /\ \A x \in Reqs \ {r, q} : server[x] = Nil

C7_ErrorHandlerFrame ==
  [][\A r \in Reqs :
       /\ (pc[r] = "eh_dec" /\ pc'[r] # pc[r])
            => /\ Healthy'[server[r]] = FALSE
               /\ ActiveConnections'[server[r]] = ActiveConnections[server[r]] - 1
               /\ TotalRequests' = TotalRequests
               /\ \A o \in Servers \ {server[r]} :
                    /\ Healthy'[o] = Healthy[o]
                    /\ ActiveConnections'[o] = ActiveConnections[o]
       /\ (pc'[r] # pc[r] /\ pc'[r] \in {"eh_lock", "eh_dec"}
             /\ backend[r] = "error")
            => srvVars' = srvVars]_vars

\* C7 witness: a transport failure on one server has been answered 502 and
\* the server is unhealthy, while the other server is healthy and serves a
\* request.
C7_Witness ==
  \E r \in Reqs :
    /\ pc[r] = "done" /\ status[r] = StatusBadGateway /\ backend[r] = "error"
    /\ ~Healthy[server[r]]
    /\ \E o \in Servers \ {server[r]} :
         Healthy[o] /\ ActiveConnections[o] = 1 /\ TotalRequests[o] = 1

\* C8: the server GetLeastConnectedServer returns was read as healthy by
\* the scan; it returns a server whenever the scan read one as healthy (so
\* with one healthy and one unhealthy server it returns the healthy one);
\* and a server whose flag has been false ever since the request entered
\* ServeHTTP is not returned.
C8_UnhealthyNeverReturned ==
  \A r \in Reqs :
    Returned(r)
      => /\ server[r] # Nil => server[r] \in ReadHealthy(r)
         /\ ReadHealthy(r) # {} => server[r] # Nil
         /\ server[r] \notin downSince[r]

\* C8 witness: the scan returned a server although a server that has been
\* unhealthy since the request arrived was read with a lower count.
C8_Witness ==
  \E r \in Reqs :
    /\ Returned(r) /\ server[r] # Nil
    /\ \E s \in downSince[r] : reads[r][s][2] < reads[r][server[r]][2]

C10_EveryRequestCompletes ==
  \A r \in Reqs : (pc[r] = "proxy") ~> (pc[r] = "done")

\* Requests on server s whose increment is done and whose decrement is not.
Undecremented(s) ==
  {q \in Reqs : /\ server[q] = s
                /\ \/ pc[q] \in {"inc_total", "proxy", "mr_sleep", "mr_dec"}
                   \/ pc[q] \in {"eh_lock", "eh_dec"} /\ backend[q] = "error"}

\* Requests on server s that were decremented by ModifyResponse and again
\* by ErrorHandler (the double decrement of C1).
DecrementedTwice(s) ==
  {q \in Reqs : server[q] = s /\ pc[q] = "done" /\ backend[q] = "switching"}

\* C11: the activeConnections that GetStats reports for S counts every
\* request whose counters were incremented on S and whose decrement has not
\* happened yet when the record is read (apart from them it only carries
\* the earlier double decrements of C1).
C11_SnapshotCountsInFlight ==
  [][\A r \in Reqs :
       (pc[r] = "stats_read" /\ pc'[r] # pc[r])
         => LET s == idx[r]
                e == stats'[r][Len(stats'[r])]
            IN /\ e.activeConnections = ActiveConnections[s]
               /\ e.activeConnections =
                    Cardinality(Undecremented(s)) - Cardinality(DecrementedTwice(s))]_vars

\* C11 witness: a snapshot reports 1 for a server on which one request is
\* between its increment and its decrement.
C11_Witness ==
  \E r, q \in Reqs :
    /\ pc[r] = "done" /\ path[r] = "/api/server-stats"
    /\ pc[q] = "mr_sleep"
    /\ server[q] \in DOMAIN stats[r]
    /\ stats[r][server[q]].activeConnections = 1
    /\ stats[r][server[q]].totalRequests = 1

\* The positions of a handler inside GetStats.
InGetStats == {"stats_lock", "stats_loop", "stats_read"}

\* C12: GetStats is a pure read: none of its steps changes Healthy,
\* ActiveConnections or TotalRequests of any server, and what it returns
\* has exactly one entry per pool member, in pool order.
C12_GetStatsPureRead ==
  [][\A r \in Reqs :
       (pc[r] \in InGetStats /\ pc'[r] # pc[r])
         => /\ UNCHANGED srvVars
            /\ pc'[r] = "done"
                 => /\ Len(stats'[r]) = Cardinality(Servers)
                    /\ \A i \in DOMAIN stats'[r] : stats'[r][i].url = i]_vars

\* C12 witness: a returned snapshot of a two-server pool whose first
\* server is unhealthy and whose second has a request in flight.
C12_Witness ==
  \E r \in Reqs :
    /\ pc[r] = "done" /\ path[r] = "/api/server-stats"
    /\ Cardinality(Servers) = 2
    /\ Len(stats[r]) = 2
    /\ ~stats[r][1].healthy
    /\ stats[r][2].activeConnections = 1

\* The first position, in pool order, of the minimal ActiveConnections the
\* scan of r read among the servers it read as healthy.
FirstOfMinimal(r) ==
  CHOOSE i \in ReadHealthy(r) :
    /\ \A j \in ReadHealthy(r) : reads[r][i][2] <= reads[r][j][2]
    /\ \A j \in ReadHealthy(r) : reads[r][j][2] = reads[r][i][2] => i <= j

\* C13: the scan replaces its candidate only when the value it reads is
\* strictly lower than the value read for the candidate, so the server it
\* returns is the first one in pool order among the servers read as healthy
\* with the minimal ActiveConnections.
C13_TiesKeepFirst ==
  /\ [][\A r \in Reqs :
          (/\ pc[r] = "glcs_read" /\ pc'[r] # pc[r]
           /\ leastConnectedServer[r] # Nil
           /\ leastConnectedServer'[r] # leastConnectedServer[r])
            => ActiveConnections[idx[r]]
                 < reads[r][leastConnectedServer[r]][2]]_vars
  /\ [](\A r \in Reqs :
          (Returned(r) /\ ReadHealthy(r) # {}) => server[r] = FirstOfMinimal(r))

\* Handlers that stand between the two increments on server s.
HalfIncremented(s) == {q \in Reqs : pc[q] = "inc_total" /\ server[q] = s}

\* C14: no selection scan and no GetStats snapshot reads a record while a
\* handler stands between its increment of ActiveConnections and its
\* increment of TotalRequests on that record; the handler holds the
\* record's lock from before the first increment until after the second.
C14_IncrementAtomic ==
  /\ \A r \in Reqs :
       pc[r] \in {"glcs_read", "stats_read"} => HalfIncremented(idx[r]) = {}
  /\ \A s \in Servers :
       \A q \in HalfIncremented(s) : Mutex[s] = ByReq(q)

\* C14 witness: a handler stands between the two increments on a server
\* while a GetStats loop stands at that server's record, waiting for its
\* lock.
C14_Witness ==
  \E r, q \in Reqs :
    /\ pc[q] = "inc_total"
    /\ pc[r] = "stats_loop"
    /\ idx[r] = server[q]
    /\ ActiveConnections[server[q]] = TotalRequests[server[q]] + 1

\* The record locks handler r holds.
HeldBy(r) == {s \in Servers : Mutex[s] = ByReq(r)}

\* The goroutine that holds the lock of record s can take its next step.
HolderRuns(s) ==
  /\ Mutex[s].kind = "probe" => ENABLED ProbeWrite(s)
  /\ Mutex[s].kind = "req" => ENABLED HandlerStep(Mutex[s].req)

\* C15: no handler holds two record locks, a handler that takes or waits
\* for the pool lock holds no record lock (a probe never takes the pool
\* lock), and no deadlock is reached: the holder of every record lock can
\* take its next step, and the holder of the pool lock can take its next
\* step unless it waits for a record lock that is held.
C15_LockOrder ==
  /\ \A r \in Reqs : Cardinality(HeldBy(r)) <= 1
  /\ \A r \in Reqs : pc[r] \in {"glcs_lock", "stats_lock"} => HeldBy(r) = {}
  /\ \A r \in Reqs : HeldBy(r) # {} /\ lbMutex # r
                       => pc[r] \in {"inc", "inc_total", "mr_dec", "eh_dec"}
  /\ \A s \in Servers : HolderRuns(s)
  /\ \A r \in Reqs :
       lbMutex = r => \/ ENABLED HandlerStep(r)
                      \/ idx[r] \in Servers /\ Mutex[idx[r]] # Free

\* C15 witness: one handler holds the pool lock and waits for a record
\* lock that a second handler, between its two increments, holds.
C15_Witness ==
  \E r, q \in Reqs :
    /\ lbMutex = r /\ pc[r] = "glcs_loop"
    /\ ~ENABLED HandlerStep(r)
    /\ Mutex[idx[r]] = ByReq(q)
    /\ pc[q] = "inc_total"

\* C16: a handler that waits for the backend's answer or sleeps in
\* ModifyResponse holds neither the pool lock nor a record lock, and a
\* probe holds a record lock only once its health request has returned
\* (and never the pool lock).
C16_NoLockWhileWaiting ==
  /\ \A r \in Reqs :
       pc[r] \in {"proxy", "mr_sleep"} => HeldBy(r) = {} /\ lbMutex # r
  /\ \A s \in Servers :
       Mutex[s].kind = "probe" => Mutex[s].res \in ProbeResults
  /\ lbMutex \in Reqs \cup {Nil}

\* C16 witness: one handler sleeps in ModifyResponse, the other waits for
\* a backend that never answers, a probe of the first one's server waits
\* for its health request, and every lock is free.
C16_Witness ==
  \E r, q \in Reqs :
    /\ pc[r] = "mr_sleep"
    /\ pc[q] = "proxy" /\ backend[q] = "silent"
    /\ probeGet[server[r]] > 0
    /\ lbMutex = Nil
    /\ \A s \in Servers : Mutex[s] = Free

\* A step of a probe of server s: its health request returns and it takes
\* the record's lock, or it writes the flag and unlocks.
ProbeCompletes(s) == Mutex[s].kind = "probe" /\ Mutex'[s] = Free
ProbeReturns(s) == Mutex[s] = Free /\ Mutex'[s].kind = "probe"

\* C17: the completion of a probe of S leaves ActiveConnections and
\* TotalRequests of every server and Healthy of every other server
\* unchanged (it sets S.Healthy to the probe's outcome, C9); the return of
\* its health request changes no server field at all.
C17_ProbeFrame ==
  [][\A s \in Servers :
       /\ ProbeCompletes(s)
            => /\ ActiveConnections' = ActiveConnections
               /\ TotalRequests' = TotalRequests
               /\ \A o \in Servers \ {s} : Healthy'[o] = Healthy[o]
       /\ ProbeReturns(s) => srvVars' = srvVars]_vars

\* C17 witness: a probe has marked a server unhealthy (no request was
\* answered 502) whose counters stand at 1 for a request still in flight.
C17_Witness ==
  \E s \in Servers :
    /\ ~Healthy[s] /\ Mutex[s] = Free
    /\ ActiveConnections[s] = 1 /\ TotalRequests[s] = 1
    /\ \A r \in Reqs : status[r] # StatusBadGateway

Moves(r) == pc'[r] # pc[r]

\* C19: a request is never retried or rerouted.  Its selection starts only
\* at its arrival, its server is assigned once and never changed, its
\* increment follows only its own selection and raises the counters of its
\* own server only, and after its terminal outcome it takes no step; the
\* ErrorHandler of a request whose transport failed answers 502 and ends
\* the request without raising any counter.
C19_NoRetry ==
  [][\A r \in Reqs :
       /\ pc'[r] = "idle" => pc[r] = "idle"
       /\ pc[r] = "done" => pc'[r] = "done" /\ status'[r] = status[r]
       /\ (Moves(r) /\ pc'[r] = "glcs_lock") => pc[r] = "idle"
       /\ (Moves(r) /\ pc'[r] = "inc") => pc[r] = "selected"
       /\ server'[r] # server[r] => pc[r] = "glcs_loop" /\ server[r] = Nil
       /\ Moves(r) =>
            \A s \in Servers :
              (\/ ActiveConnections'[s] > ActiveConnections[s]
               \/ TotalRequests'[s] > TotalRequests[s])
                => s = server[r] /\ pc[r] \in {"inc", "inc_total"}
       /\ (Moves(r) /\ pc[r] = "eh_dec")
            => /\ pc'[r] = "done"
               /\ status'[r] = StatusBadGateway
               /\ server'[r] = server[r]
               /\ TotalRequests' = TotalRequests]_vars

\* C19 witness: the only request dispatched so far failed at the transport
\* and was answered 502 while the other server was healthy and idle, and
\* that server's counters are still 0.
C19_Witness ==
  \E r \in Reqs :
    /\ pc[r] = "done" /\ backend[r] = "error" /\ status[r] = StatusBadGateway
    /\ \A q \in Reqs \ {r} : pc[q] = "idle"
    /\ \E o \in Servers \ {server[r]} :
         /\ Healthy[o] /\ URL[o] = "valid"
         /\ ActiveConnections[o] = 0 /\ TotalRequests[o] = 0
    /\ TotalRequests[server[r]] = 1

\* C20: Healthy of a server goes from false to true only in the step in
\* which a probe of that server, holding the record's lock with a result
\* that has no error and status 200, writes the flag; no step of a handler
\* (selection, increments, ModifyResponse, ErrorHandler, GetStats) does it.
\* Hence a scan that starts after a server was marked unhealthy, with no
\* such probe write since, does not return that server.
C20_OnlyProbeRevives ==
  /\ [][\A s \in Servers :
          (~Healthy[s] /\ Healthy'[s])
            => /\ Mutex[s].kind = "probe"
               /\ ~Mutex[s].res.err /\ Mutex[s].res.code = StatusOK
               /\ Mutex'[s] = Free
               /\ pc' = pc]_vars
  /\ [](\A r \in Reqs : Returned(r) => server[r] \notin downSince[r])

\* C20 witness: a request was answered 502 and its server marked
\* unhealthy; a request that arrived afterwards, with no successful probe
\* of that server in between, was routed to the other server while a failed
\* request's server stayed unhealthy.
C20_Witness ==
  \E r, q \in Reqs :
    /\ pc[r] = "done" /\ backend[r] = "error" /\ status[r] = StatusBadGateway
    /\ ~Healthy[server[r]]
    /\ Returned(q)
    /\ server[r] \in downSince[q]
    /\ server[q] \notin {Nil, server[r]}

====
